---- MODULE Spec2Model ----
(***************************************************************************)
(* Model of the audit-indexing core of the cg package:                     *)
(*   cg/audit_db.py      the metadata store (scan_runs, files)             *)
(*   cg/audit_indexer.py the crawler (index_path, _flush_batch)            *)
(*   cg/job_manager.py   the single-slot job manager and its worker thread *)
(*                                                                         *)
(* The specifications share the variables:                                  *)
(*   Spec       the job manager driving crawler and store through start()  *)
(*              and the worker threads;                                    *)
(*   StoreSpec  the store's run-lifecycle API called directly in any order;*)
(*   FilesSpec  insert_file_batch called with arbitrary rows;              *)
(*   PollSpec   Spec with a client polling get_status();                   *)
(*   RescanSpec Spec with one more start() accepted;                       *)
(*   CrawlSpec  Spec with start() on directories only, one of them empty;  *)
(*   PageSpec   a client paging through fetch_page;                        *)
(*   RunsSpec   the run-lifecycle API under a moving clock, and list_runs; *)
(*   ReadSpec   the manager polled by get_status(), has_active_job();      *)
(*   FairSpec   the manager with fairly scheduled worker threads;          *)
(*   IndexSpec  index_path called directly, one call after the other;      *)
(*   SingleSpec the manager asked once: a single crawl;                    *)
(*   TxSpec     SingleSpec with the batch insert taken row by row, and a   *)
(*              client reading the files;                                  *)
(*   LockSpec   the manager with its lock made explicit.                   *)
(***************************************************************************)
EXTENDS Integers, Sequences, FiniteSets, TLC

VARIABLES
    runs,     \* table scan_runs: sequence of rows, run_id = position
    files,    \* table files: set of rows
    now,      \* the wall clock read by _utc_now() / time.time()
    jobs,     \* every JobStatus object ever created, job_id = position
    cur,      \* JobManager._job: position in jobs, 0 for None
    thread,   \* JobManager._thread: job whose worker it is, 0 for None
    w,        \* per job: the worker thread's control point and locals
    last,     \* the most recent API call and what it returned
    snap,     \* the most recent value returned by get_status()
    faults,   \* number of store calls and walk steps that have raised
    out       \* the most recent value returned by a query of the store or manager

vars == <<runs, files, now, jobs, cur, thread, w, last, snap, faults, out>>

-----------------------------------------------------------------------------
(* Bounds of the model *)

MaxJobs == 2        \* number of start() calls that are accepted
MaxCount == 1       \* counter value passed to the store API directly
MaxBatch == 2       \* longest batch passed to insert_file_batch directly
BatchSize == 2      \* index_path's batch_size argument
MaxFaults == 1      \* number of store calls and walk steps that raise

\* SQL NULL / Python None, for text columns and for timestamp columns
NULL == "NULL"
NoTime == -1

-----------------------------------------------------------------------------
(* The filesystem *)

\* Paths a caller may hand to start() / prepare_run(); "r1/." names r1.
ValidRoots == {"r1", "r2"}
MissingRoot == "gone"
RootInputs == ValidRoots \cup {MissingRoot}

\* A directory that holds no file, and the directories CrawlSpec crawls
EmptyRoot == "r0"
Directories == ValidRoots \cup {EmptyRoot}

\* A directory whose files fill more than two batches
LongRoot == "r3"

\* Path.resolve(): canonical absolute path
resolve(p) == IF p = "r1/." THEN "r1" ELSE p

\* The root checks passing for every path
exists_dir_Always(root) == TRUE

\* root.exists() and root.is_dir()
exists_dir(root) == root \in Directories \cup {LongRoot}

File(path, name, dir, suffix, ct, mt, owner) ==
    [path |-> path, name |-> name, dir |-> dir, suffix |-> suffix,
     st_ctime |-> ct, st_mtime |-> mt, owner |-> owner]

\* os.walk(root) in enumeration order; st_ctime = NoTime: stat() raises
Tree(root) ==
    IF root = "r1" THEN
        << File("r1/a.txt", "a.txt", "", ".txt", 0, 0, "u1"),
           File("r1/x", "x", "", "", NoTime, NoTime, NULL),
           File("r1/sub/b.PDF", "b.PDF", "sub", ".PDF", 0, 1, NULL) >>
    ELSE IF root = "r2" THEN
        << File("r2/c.txt", "c.txt", "", ".txt", 0, 0, "u1") >>
    ELSE IF root = "r3" THEN
        << File("r3/f1.txt", "f1.txt", "", ".txt", 0, 0, "u1"),
           File("r3/f2.PDF", "f2.PDF", "", ".PDF", 0, 0, "u1"),
           File("r3/bad", "bad", "", "", NoTime, NoTime, NULL),
           File("r3/f3.txt", "f3.txt", "", ".txt", 0, 0, "u1"),
           File("r3/sub/f4.txt", "f4.txt", "sub", ".txt", 0, 0, NULL),
           File("r3/sub/f5.txt", "f5.txt", "sub", ".txt", 0, 1, NULL) >>
    ELSE << >>

-----------------------------------------------------------------------------
(* audit_db.py: the store *)

COALESCE_time(x, y) == IF x # NoTime THEN x ELSE y
COALESCE_text(x, y) == IF x # NULL THEN x ELSE y

RunIds(rs) == 1..Len(rs)

\* SELECT run_id FROM scan_runs WHERE root_path = ?
RunIdOf(rs, root) == {i \in RunIds(rs) : rs[i].root_path = root}

NewRunRow(root, t) ==
    [root_path |-> root, queued_at |-> t, started_at |-> NoTime,
     completed_at |-> NoTime, status |-> "queued", total_files |-> 0,
     total_errors |-> 0, duration_seconds |-> NoTime, error_message |-> NULL]

\* ResetRunRow with the error counter left out of the UPDATE
ResetRunRow_KeepsErrors(row, t) ==
    [row EXCEPT !.queued_at = t, !.started_at = NoTime, !.completed_at = NoTime,
                !.status = "queued", !.total_files = 0,
                !.duration_seconds = NoTime, !.error_message = NULL]

ResetRunRow(row, t) ==
    [row EXCEPT !.queued_at = t, !.started_at = NoTime, !.completed_at = NoTime,
                !.status = "queued", !.total_files = 0, !.total_errors = 0,
                !.duration_seconds = NoTime, !.error_message = NULL]

\* DeleteFilesOfRun with the WHERE clause left out
DeleteFilesOfRun_All(fs, run_id) == {}

\* DELETE FROM files WHERE run_id = ?
DeleteFilesOfRun(fs, run_id) == {f \in fs : f.run_id # run_id}

\* prepare_run: the store after the call and the run id returned
prepare_run(rs, fs, root_path, t) ==
    LET resolved == resolve(root_path)
        found == RunIdOf(rs, resolved)
    IN  IF found # {}
        THEN LET run_id == CHOOSE i \in found : TRUE
             IN [runs |-> [rs EXCEPT ![run_id] = ResetRunRow(rs[run_id], t)],
                 files |-> DeleteFilesOfRun(fs, run_id),
                 run_id |-> run_id]
        ELSE [runs |-> Append(rs, NewRunRow(resolved, t)),
              files |-> fs,
              run_id |-> Len(rs) + 1]

\* UPDATE ... WHERE run_id = ?  touches no row when the id is unknown
mark_run_started(rs, run_id, t) ==
    IF run_id \in RunIds(rs)
    THEN [rs EXCEPT ![run_id].started_at = t, ![run_id].status = "running"]
    ELSE rs

update_run_progress(rs, run_id, total_files, total_errors) ==
    IF run_id \in RunIds(rs)
    THEN [rs EXCEPT ![run_id].total_files = total_files,
                    ![run_id].total_errors = total_errors]
    ELSE rs

finalize_run(rs, run_id, total_files, total_errors, duration_seconds, status, error_message, t) ==
    IF run_id \in RunIds(rs)
    THEN [rs EXCEPT ![run_id].completed_at = t, ![run_id].status = status,
                    ![run_id].total_files = total_files,
                    ![run_id].total_errors = total_errors,
                    ![run_id].duration_seconds = duration_seconds,
                    ![run_id].error_message = error_message]
    ELSE rs

\* A batch row is the tuple the crawler builds:
\* <<path, file_name, subfolder, extension, created_at, modified_at, modified_by>>
FileRow(run_id, row) ==
    [run_id |-> run_id, path |-> row[1], file_name |-> row[2],
     subfolder |-> row[3], extension |-> row[4], created_at |-> row[5],
     modified_at |-> row[6], modified_by |-> row[7]]

\* ConflictUpdate with created_at = excluded.created_at, without COALESCE
ConflictUpdate_NoCoalesce(f, row) ==
    [f EXCEPT !.file_name = row[2], !.subfolder = row[3], !.extension = row[4],
              !.created_at = row[5],
              !.modified_at = COALESCE_time(row[6], f.modified_at),
              !.modified_by = COALESCE_text(row[7], f.modified_by)]

\* ON CONFLICT(run_id, path) DO UPDATE SET ...
ConflictUpdate(f, row) ==
    [f EXCEPT !.file_name = row[2], !.subfolder = row[3], !.extension = row[4],
              !.created_at = COALESCE_time(row[5], f.created_at),
              !.modified_at = COALESCE_time(row[6], f.modified_at),
              !.modified_by = COALESCE_text(row[7], f.modified_by)]

\* The rows UNIQUE(run_id, path) makes a new row conflict with
Conflicting(fs, run_id, row) ==
    {f \in fs : f.run_id = run_id /\ f.path = row[1]}

\* INSERT INTO files ... ON CONFLICT ... for one row
UpsertFile(fs, run_id, row) ==
    LET hit == Conflicting(fs, run_id, row)
    IN  IF hit = {}
        THEN fs \cup {FileRow(run_id, row)}
        ELSE (fs \ hit) \cup {ConflictUpdate(f, row) : f \in hit}

RECURSIVE insert_file_batch(_, _, _)
\* executemany over the batch, in order, in one transaction
insert_file_batch(fs, run_id, rows) ==
    IF rows = << >> THEN fs
    ELSE insert_file_batch(UpsertFile(fs, run_id, Head(rows)), run_id, Tail(rows))

-----------------------------------------------------------------------------
(* audit_indexer.py: the crawler's per-file work *)

\* str.lower() and str.lstrip(".") on the suffixes that occur
lower(s) == IF s = ".PDF" THEN ".pdf" ELSE s
lstrip_dot(s) == IF s = ".pdf" THEN "pdf" ELSE IF s = ".txt" THEN "txt"
                 ELSE IF s = ".PDF" THEN "PDF" ELSE s

\* _timestamps: <<created, modified>>, both None when stat() raises
timestamps(f) ==
    IF f.st_ctime = NoTime THEN <<NoTime, NoTime>> ELSE <<f.st_ctime, f.st_mtime>>

\* _subfolder: the parent relative to the root, "/" for the root itself
subfolder(f) == IF f.dir = "" THEN "/" ELSE f.dir

\* _owner_for: the owner, None when the lookup raises
owner_for(f) == f.owner

\* The tuple appended to the batch for a file whose stat succeeded
BatchRow(f) ==
    << f.path, f.name, subfolder(f), lstrip_dot(lower(f.suffix)),
       timestamps(f)[1], timestamps(f)[2], owner_for(f) >>

\* One iteration that skips a file whose stat failed without counting it
WalkFile_SkipsUncounted(ws, f) ==
    IF timestamps(f)[1] = NoTime /\ timestamps(f)[2] = NoTime
    THEN [ws EXCEPT !.idx = @ + 1]
    ELSE [ws EXCEPT !.batch = Append(@, BatchRow(f)), !.idx = @ + 1]

\* One iteration of `for name in files`: count an error or append to the batch
WalkFile(ws, f) ==
    IF timestamps(f)[1] = NoTime /\ timestamps(f)[2] = NoTime
    THEN [ws EXCEPT !.error_count = @ + 1, !.idx = @ + 1]
    ELSE [ws EXCEPT !.batch = Append(@, BatchRow(f)), !.idx = @ + 1]

\* AtFlushPoint with the loop flushing once the batch exceeds batch_size
AtFlushPoint_Late(ws, tree) == ws.idx > Len(tree) \/ Len(ws.batch) > BatchSize

\* True when the loop must stop to flush, or has no file left
AtFlushPoint(ws, tree) == ws.idx > Len(tree) \/ Len(ws.batch) >= BatchSize

RECURSIVE WalkSegment(_, _)
\* Iterate the loop up to the next flush (or the end of the walk)
WalkSegment(ws, tree) ==
    IF AtFlushPoint(ws, tree) THEN ws
    ELSE WalkSegment(WalkFile(ws, tree[ws.idx]), tree)

RECURSIVE WalkN(_, _, _)
\* Iterate the loop over the next n files
WalkN(ws, tree, n) ==
    IF n = 0 THEN ws ELSE WalkN(WalkFile(ws, tree[ws.idx]), tree, n - 1)

-----------------------------------------------------------------------------
(* job_manager.py: JobStatus and the manager's API *)

\* NewJob with status left to the dataclass default
NewJob_DefaultStatus(job_id, run_id, root_path) ==
    [job_id |-> job_id, run_id |-> run_id, root_path |-> root_path,
     status |-> "idle", message |-> "Queued (preparing to index)",
     processed_files |-> 0, error_count |-> 0, current_path |-> NULL,
     started_at |-> NoTime, finished_at |-> NoTime,
     duration_seconds |-> NoTime]

NewJob(job_id, run_id, root_path) ==
    [job_id |-> job_id, run_id |-> run_id, root_path |-> root_path,
     status |-> "queued", message |-> "Queued (preparing to index)",
     processed_files |-> 0, error_count |-> 0, current_path |-> NULL,
     started_at |-> NoTime, finished_at |-> NoTime,
     duration_seconds |-> NoTime]

\* Locals of index_path and _worker for a thread that has not run yet;
\* sent: the rows executed so far in the open transaction of its connection,
\* lock: the thread is inside a `with self._lock` block
NewWorker ==
    [pc |-> "begin", total_files |-> 0, error_count |-> 0, batch |-> << >>,
     idx |-> 1, start |-> NoTime, exc |-> NULL, sent |-> 0, lock |-> FALSE,
     result |-> [total_files |-> 0, error_count |-> 0, duration_seconds |-> 0]]

Max(a, b) == IF a >= b THEN a ELSE b

\* to_dict filling in the time elapsed so far for a job that has not finished
to_dict_Elapsed(job) ==
    IF job.started_at # NoTime /\ job.duration_seconds = NoTime
    THEN [job EXCEPT !.duration_seconds = Max(now - job.started_at, 0)]
    ELSE job

\* JobStatus.to_dict: fills in the duration of a finished job that has none
to_dict(job) ==
    IF job.started_at # NoTime /\ job.duration_seconds = NoTime
       /\ job.finished_at # NoTime /\ job.finished_at # 0
    THEN [job EXCEPT !.duration_seconds = Max(job.finished_at - job.started_at, 0)]
    ELSE job

\* The test start() makes under the lock before it replaces the job
StartBlocked == cur # 0 /\ jobs[cur].status = "running"

\* has_active_job() with the status test start() makes
has_active_job_RunningOnly == cur # 0 /\ jobs[cur].status = "running"

\* has_active_job()
has_active_job == cur # 0 /\ jobs[cur].status \in {"queued", "running"}

\* A call as its caller saw it: the value returned, or that it raised;
\* info is the number of file rows a prepare_run deleted
Call(op, raised, value, info) ==
    [op |-> op, raised |-> raised, value |-> value, info |-> info]

\* start(root_path) raising JobAlreadyRunningError
StartRejected(root_path) ==
    /\ StartBlocked
    /\ last' = Call("start", TRUE, 0, 0)
    /\ UNCHANGED <<runs, files, now, jobs, cur, thread, w, snap, faults, out>>

\* start(root_path) queueing a job and launching its worker thread, while
\* fewer than n jobs have been accepted
StartAcceptedUpTo(root_path, n) ==
    /\ ~StartBlocked
    /\ Len(jobs) < n
    /\ LET prep == prepare_run(runs, files, root_path, now)
           job_id == Len(jobs) + 1
       IN /\ runs' = prep.runs
          /\ files' = prep.files
          /\ jobs' = Append(jobs, NewJob(job_id, prep.run_id, resolve(root_path)))
          /\ cur' = job_id
          /\ thread' = job_id
          /\ w' = Append(w, NewWorker)
          /\ last' = Call("start", FALSE, job_id, 0)
    /\ UNCHANGED <<now, snap, faults, out>>

StartAccepted(root_path) == StartAcceptedUpTo(root_path, MaxJobs)

start(root_path) == StartRejected(root_path) \/ StartAccepted(root_path)

\* get_status(): None, or a copy of the current job
get_status ==
    /\ snap' = IF cur = 0 THEN << >> ELSE << to_dict(jobs[cur]) >>
    /\ UNCHANGED <<runs, files, now, jobs, cur, thread, w, last, faults, out>>

\* A client calls has_active_job()
HasActiveJob ==
    /\ out' = << has_active_job >>
    /\ UNCHANGED <<runs, files, now, jobs, cur, thread, w, last, snap, faults>>

-----------------------------------------------------------------------------
(* job_manager.py / audit_indexer.py: the worker thread of job j.           *)
(* Each action is one store transaction, one critical section of the       *)
(* manager's lock, or the thread-local work between two of them.  A store  *)
(* call that raises takes no effect.                                       *)

Workers == 1..Len(jobs)

\* The exception a failing store call or walk step raises
Fault == "boom"

\* _worker, first critical section: the job becomes running
WorkerBegin(j) ==
    /\ w[j].pc = "begin"
    /\ jobs' = [jobs EXCEPT ![j].status = "running", ![j].message = "Indexing",
                            ![j].started_at = now]
    /\ w' = [w EXCEPT ![j].pc = "index"]
    /\ UNCHANGED <<runs, files, now, cur, thread, last, snap, faults, out>>

\* index_path up to the walk: validate the root, then mark_run_started
IndexEnter(j) ==
    /\ w[j].pc = "index"
    /\ IF ~exists_dir(resolve(jobs[j].root_path))
       THEN /\ w' = [w EXCEPT ![j].pc = "except", ![j].exc = "Root path does not exist"]
            /\ UNCHANGED runs
       ELSE /\ runs' = mark_run_started(runs, jobs[j].run_id, now)
            /\ w' = [w EXCEPT ![j].pc = "walk", ![j].start = now]
    /\ UNCHANGED <<files, now, jobs, cur, thread, last, snap, faults, out>>

\* mark_run_started raises
MarkRaises(j) ==
    /\ faults < MaxFaults
    /\ faults' = faults + 1
    /\ w[j].pc = "index"
    /\ exists_dir(resolve(jobs[j].root_path))
    /\ w' = [w EXCEPT ![j].pc = "failfin", ![j].start = now, ![j].exc = Fault]
    /\ UNCHANGED <<runs, files, now, jobs, cur, thread, last, snap, out>>

\* Where the loop goes once it can append no more: flush, or finalize
AfterWalk(ws) == IF ws.batch # << >> THEN "insert" ELSE "finalize"

\* The os.walk loop up to the next flush or the end of the tree
Walk(j) ==
    /\ w[j].pc = "walk"
    /\ LET ws == WalkSegment(w[j], Tree(jobs[j].root_path))
       IN w' = [w EXCEPT ![j] = [ws EXCEPT !.pc = AfterWalk(ws)]]
    /\ UNCHANGED <<runs, files, now, jobs, cur, thread, last, snap, faults, out>>

\* The loop raises while it handles a file
WalkRaises(j) ==
    /\ faults < MaxFaults
    /\ faults' = faults + 1
    /\ w[j].pc = "walk"
    /\ LET tree == Tree(jobs[j].root_path)
           seg == WalkSegment(w[j], tree).idx - w[j].idx
       IN \E n \in 0..(seg - 1) :
            w' = [w EXCEPT ![j] = [WalkN(w[j], tree, n) EXCEPT
                                      !.pc = "failfin", !.exc = Fault]]
    /\ UNCHANGED <<runs, files, now, jobs, cur, thread, last, snap, out>>

\* InsertRow on a connection that commits every statement
InsertRow_Autocommit(j) ==
    /\ w[j].pc = "insert"
    /\ w[j].sent < Len(w[j].batch)
    /\ files' = UpsertFile(files, jobs[j].run_id, w[j].batch[w[j].sent + 1])
    /\ w' = [w EXCEPT ![j].sent = @ + 1]
    /\ UNCHANGED <<runs, now, jobs, cur, thread, last, snap, faults, out>>

\* insert_file_batch, one row of executemany: the row is written inside the
\* transaction of the crawl's connection, which other connections do not see
InsertRow(j) ==
    /\ w[j].pc = "insert"
    /\ w[j].sent < Len(w[j].batch)
    /\ w' = [w EXCEPT ![j].sent = @ + 1]
    /\ UNCHANGED <<runs, files, now, jobs, cur, thread, last, snap, faults, out>>

\* insert_file_batch, leaving `with con`: the transaction commits
InsertCommit(j) ==
    /\ w[j].pc = "insert"
    /\ w[j].sent = Len(w[j].batch)
    /\ files' = insert_file_batch(files, jobs[j].run_id, w[j].batch)
    /\ w' = [w EXCEPT ![j].pc = "progress", ![j].sent = 0]
    /\ UNCHANGED <<runs, now, jobs, cur, thread, last, snap, faults, out>>

\* _flush_batch: insert_file_batch, the whole transaction
FlushInsert(j) ==
    /\ w[j].pc = "insert"
    /\ files' = insert_file_batch(files, jobs[j].run_id, w[j].batch)
    /\ w' = [w EXCEPT ![j].pc = "progress"]
    /\ UNCHANGED <<runs, now, jobs, cur, thread, last, snap, faults, out>>

\* FlushProgress counting the unreadable files among the files indexed
FlushProgress_CountsErrors(j) ==
    /\ w[j].pc = "progress"
    /\ runs' = update_run_progress(runs, jobs[j].run_id,
                                   w[j].total_files + Len(w[j].batch) + w[j].error_count,
                                   w[j].error_count)
    /\ w' = [w EXCEPT ![j].pc = "callback"]
    /\ UNCHANGED <<files, now, jobs, cur, thread, last, snap, faults, out>>

\* _flush_batch: update_run_progress
FlushProgress(j) ==
    /\ w[j].pc = "progress"
    /\ runs' = update_run_progress(runs, jobs[j].run_id,
                                   w[j].total_files + Len(w[j].batch),
                                   w[j].error_count)
    /\ w' = [w EXCEPT ![j].pc = "callback"]
    /\ UNCHANGED <<files, now, jobs, cur, thread, last, snap, faults, out>>

\* IndexStats handed to the progress callback
IndexStats(ws) ==
    [processed_files |-> ws.total_files + Len(ws.batch),
     error_count |-> ws.error_count,
     current_path |-> ws.batch[Len(ws.batch)][1]]

\* _on_progress: the manager's current job takes the counters, if running
on_progress(js, c, stats) ==
    IF c = 0 \/ js[c].status # "running" THEN js
    ELSE [js EXCEPT ![c].processed_files = stats.processed_files,
                    ![c].error_count = stats.error_count,
                    ![c].current_path = stats.current_path,
                    ![c].message = IF stats.processed_files # 0
                                   THEN "Indexed files" ELSE "Indexing"]

\* _flush_batch: the progress callback; then total_files += processed,
\* batch.clear() and back to the loop
FlushCallback(j) ==
    /\ w[j].pc = "callback"
    /\ jobs' = on_progress(jobs, cur, IndexStats(w[j]))
    /\ LET ws == [w[j] EXCEPT !.total_files = @ + Len(w[j].batch),
                              !.batch = << >>]
       IN w' = [w EXCEPT ![j] = [ws EXCEPT !.pc =
                    IF ws.idx > Len(Tree(jobs[j].root_path))
                    THEN "finalize" ELSE "walk"]]
    /\ UNCHANGED <<runs, files, now, cur, thread, last, snap, faults, out>>

\* A store write of the crawl raises: insert_file_batch (its transaction,
\* however far it got, is rolled back), update_run_progress or the
\* finalize_run of the success path
StoreRaises(j) ==
    /\ faults < MaxFaults
    /\ faults' = faults + 1
    /\ w[j].pc \in {"insert", "progress", "finalize"}
    /\ w' = [w EXCEPT ![j].pc = "failfin", ![j].exc = Fault, ![j].sent = 0]
    /\ UNCHANGED <<runs, files, now, jobs, cur, thread, last, snap, out>>

\* index_path, success path: finalize_run(completed) and return IndexResult
Finalize(j) ==
    /\ w[j].pc = "finalize"
    /\ LET duration == Max(now - w[j].start, 0)
       IN /\ runs' = finalize_run(runs, jobs[j].run_id, w[j].total_files,
                                  w[j].error_count, duration, "completed",
                                  NULL, now)
          /\ w' = [w EXCEPT ![j].pc = "complete",
                            ![j].result = [total_files |-> w[j].total_files,
                                           error_count |-> w[j].error_count,
                                           duration_seconds |-> duration]]
    /\ UNCHANGED <<files, now, jobs, cur, thread, last, snap, faults, out>>

\* FinalizeFailed passing error_count without the additional error
FinalizeFailed_SameErrors(j) ==
    /\ w[j].pc = "failfin"
    /\ runs' = finalize_run(runs, jobs[j].run_id, w[j].total_files,
                            w[j].error_count, Max(now - w[j].start, 0),
                            "failed", w[j].exc, now)
    /\ w' = [w EXCEPT ![j].pc = "except"]
    /\ UNCHANGED <<files, now, jobs, cur, thread, last, snap, faults, out>>

\* index_path, except branch: finalize_run(failed), then re-raise
FinalizeFailed(j) ==
    /\ w[j].pc = "failfin"
    /\ runs' = finalize_run(runs, jobs[j].run_id, w[j].total_files,
                            w[j].error_count + 1, Max(now - w[j].start, 0),
                            "failed", w[j].exc, now)
    /\ w' = [w EXCEPT ![j].pc = "except"]
    /\ UNCHANGED <<files, now, jobs, cur, thread, last, snap, faults, out>>

\* _worker, except branch: build the IndexResult from the job's counters
WorkerExcept(j) ==
    /\ w[j].pc = "except"
    /\ w' = [w EXCEPT ![j].pc = "failcomplete",
                      ![j].result = [total_files |-> jobs[j].processed_files,
                                     error_count |-> jobs[j].error_count + 1,
                                     duration_seconds |-> 0]]
    /\ UNCHANGED <<runs, files, now, jobs, cur, thread, last, snap, faults, out>>

\* _on_complete recording the result without the final status
on_complete_KeepsStatus(job, result, status, message, finished) ==
    [job EXCEPT !.message = message, !.finished_at = finished,
                !.processed_files = result.total_files,
                !.error_count = result.error_count]

\* _on_complete: the worker's own job takes the result; _thread is cleared
on_complete(job, result, status, message, finished) ==
    [job EXCEPT !.status = status, !.message = message,
                !.finished_at = finished,
                !.processed_files = result.total_files,
                !.error_count = result.error_count,
                !.duration_seconds =
                    IF result.duration_seconds # 0 THEN result.duration_seconds
                    ELSE finished - (IF job.started_at # NoTime /\ job.started_at # 0
                                     THEN job.started_at ELSE finished)]

\* _worker: _on_complete(job, result, "completed", ...)
OnCompleteOK(j) ==
    /\ w[j].pc = "complete"
    /\ jobs' = [jobs EXCEPT ![j] = on_complete(jobs[j], w[j].result, "completed",
                                               "Scan complete.", now)]
    /\ thread' = 0
    /\ w' = [w EXCEPT ![j].pc = "done"]
    /\ UNCHANGED <<runs, files, now, cur, last, snap, faults, out>>

\* _worker: _on_complete(job, result, "failed", ...)
OnCompleteFailed(j) ==
    /\ w[j].pc = "failcomplete"
    /\ jobs' = [jobs EXCEPT ![j] = on_complete(jobs[j], w[j].result, "failed",
                                               "Scan failed", now)]
    /\ thread' = 0
    /\ w' = [w EXCEPT ![j].pc = "done"]
    /\ UNCHANGED <<runs, files, now, cur, last, snap, faults, out>>

-----------------------------------------------------------------------------
(* Spec: the job manager, its worker threads and the store behind them *)

NoCall == Call("none", FALSE, 0, 0)

Init ==
    /\ runs = << >>
    /\ files = {}
    /\ now = 1
    /\ jobs = << >>
    /\ cur = 0
    /\ thread = 0
    /\ w = << >>
    /\ last = NoCall
    /\ snap = << >>
    /\ faults = 0
    /\ out = << >>

\* A step of some worker thread
WorkerNext ==
    \/ \E j \in Workers : WorkerBegin(j)
    \/ \E j \in Workers : IndexEnter(j)
    \/ \E j \in Workers : MarkRaises(j)
    \/ \E j \in Workers : Walk(j)
    \/ \E j \in Workers : WalkRaises(j)
    \/ \E j \in Workers : FlushInsert(j)
    \/ \E j \in Workers : FlushProgress(j)
    \/ \E j \in Workers : FlushCallback(j)
    \/ \E j \in Workers : StoreRaises(j)
    \/ \E j \in Workers : Finalize(j)
    \/ \E j \in Workers : FinalizeFailed(j)
    \/ \E j \in Workers : WorkerExcept(j)
    \/ \E j \in Workers : OnCompleteOK(j)
    \/ \E j \in Workers : OnCompleteFailed(j)

Next ==
    \/ \E r \in RootInputs : StartRejected(r)
    \/ \E r \in RootInputs : StartAccepted(r)
    \/ WorkerNext

Spec == Init /\ [][Next]_vars

\* Any step of the worker thread of job j
WorkerStep(j) ==
    /\ j \in Workers
    /\ \/ WorkerBegin(j) \/ IndexEnter(j) \/ MarkRaises(j) \/ Walk(j)
       \/ WalkRaises(j) \/ FlushInsert(j) \/ FlushProgress(j)
       \/ FlushCallback(j) \/ StoreRaises(j) \/ Finalize(j)
       \/ FinalizeFailed(j) \/ WorkerExcept(j) \/ OnCompleteOK(j)
       \/ OnCompleteFailed(j)


-----------------------------------------------------------------------------
(* audit_db.py: the read queries.  A table is read in the order in which   *)
(* the statement's plan visits its rows (scan: a sequence of rows); rows   *)
(* that compare equal under ORDER BY come out in that order.               *)

Min(a, b) == IF a <= b THEN a ELSE b

\* The characters of the subfolder values and filter strings that occur
Chars(str) ==
    CASE str = "" -> << >>
      [] str = "/" -> << "/" >>
      [] str = "_" -> << "_" >>
      [] str = "fin" -> << "f", "i", "n" >>
      [] str = "Fin/x" -> << "F", "i", "n", "/", "x" >>
      [] str = "sub" -> << "s", "u", "b" >>

\* LIKE compares ASCII letters without regard to case
like_fold(c) == IF c = "F" THEN "f" ELSE c

RECURSIVE like(_, _)
\* str LIKE pat: % matches any run of characters, _ any one character
like(pat, str) ==
    IF pat = << >> THEN str = << >>
    ELSE IF Head(pat) = "%"
         THEN like(Tail(pat), str) \/ (str # << >> /\ like(pat, Tail(str)))
    ELSE IF str = << >> THEN FALSE
    ELSE IF Head(pat) = "_" THEN like(Tail(pat), Tail(str))
    ELSE like_fold(Head(pat)) = like_fold(Head(str)) /\ like(Tail(pat), Tail(str))

\* The text values that occur, in the byte order of the BINARY collation
ByteOrder ==
    << "", "/", "Fin/x", "a.txt", "b.PDF", "b.pdf", "c.txt", "f1.txt", "f2.PDF",
       "f3.txt", "f4.txt", "f5.txt", "fin", "pdf", "sub", "txt", "u1" >>

SortInstruction(column_id, direction) ==
    [column_id |-> column_id, direction |-> direction]

allowed_columns ==
    {"file_name", "subfolder", "created_at", "modified_at", "modified_by", "extension"}

\* The value of a column of a file row
Column(f, column_id) ==
    CASE column_id = "file_name" -> f.file_name
      [] column_id = "subfolder" -> f.subfolder
      [] column_id = "created_at" -> f.created_at
      [] column_id = "modified_at" -> f.modified_at
      [] column_id = "modified_by" -> f.modified_by
      [] column_id = "extension" -> f.extension

\* One term of the ORDER BY clause for an instruction
OrderTerm(instruction) ==
    [column_id |-> instruction.column_id,
     direction |-> IF lower(instruction.direction) = "asc" THEN "ASC" ELSE "DESC"]

\* _build_order_clause: the terms of the first three instructions that name
\* an allowed column, or file_name ASC when there is none
build_order_clause(sort_instructions) ==
    LET first == SubSeq(sort_instructions, 1, Min(3, Len(sort_instructions)))
        kept == SelectSeq(first, LAMBDA i : i.column_id \in allowed_columns)
        parts == [k \in 1..Len(kept) |-> OrderTerm(kept[k])]
    IN IF parts = << >> THEN << [column_id |-> "file_name", direction |-> "ASC"] >>
       ELSE parts

\* Position of a row's column value in SQLite's ordering: NULL first, then
\* the values ascending.  The time columns hold isoformat() text, which
\* sorts as the times do.
SortKey(f, column_id) ==
    LET v == Column(f, column_id)
    IN IF column_id \in {"created_at", "modified_at"}
       THEN IF v = NoTime THEN 0 ELSE v + 1
       ELSE IF v = NULL THEN 0
       ELSE CHOOSE k \in 1..Len(ByteOrder) : ByteOrder[k] = v

RECURSIVE Compare(_, _, _)
\* ORDER BY terms applied to two rows: -1 when f sorts first, 1 when g does,
\* 0 when the terms do not tell them apart
Compare(f, g, terms) ==
    IF terms = << >> THEN 0
    ELSE LET a == SortKey(f, Head(terms).column_id)
             b == SortKey(g, Head(terms).column_id)
         IN IF a = b THEN Compare(f, g, Tail(terms))
            ELSE IF (a < b) = (Head(terms).direction = "ASC") THEN -1 ELSE 1

\* ORDER BY: the rows of seq by the terms, equal rows in the order of seq
OrderBy(seq, terms) ==
    LET n == Len(seq)
        pos(i) == 1 + Cardinality({j \in 1..n :
                        \/ Compare(seq[j], seq[i], terms) < 0
                        \/ Compare(seq[j], seq[i], terms) = 0 /\ j < i})
    IN [k \in 1..n |-> seq[CHOOSE i \in 1..n : pos(i) = k]]

\* The columns fetch_page selects
PageRow(f) ==
    [file_name |-> f.file_name, subfolder |-> f.subfolder,
     created_at |-> f.created_at, modified_at |-> f.modified_at,
     modified_by |-> f.modified_by, extension |-> f.extension, path |-> f.path]

\* The WHERE clause of fetch_page; an empty filter adds no condition
Where(f, run_id, extensions, subfolder_contains) ==
    /\ f.run_id = run_id
    /\ extensions # {} => f.extension \in extensions
    /\ subfolder_contains # "" =>
          like(<< "%" >> \o Chars(subfolder_contains) \o << "%" >>, Chars(f.subfolder))

\* fetch_page over the files in scan order: the page's rows and the total
fetch_page(scan, run_id, page_number, page_size, sort_instructions, extensions, subfolder_contains) ==
    LET matching == SelectSeq(scan, LAMBDA f : Where(f, run_id, extensions, subfolder_contains))
        ordered == OrderBy(matching, build_order_clause(sort_instructions))
        offset == Max(page_number, 0) * page_size
        page == SubSeq(ordered, offset + 1, Min(offset + page_size, Len(ordered)))
    IN [rows |-> [k \in 1..Len(page) |-> PageRow(page[k])],
        total |-> Len(matching)]

\* Position of a text value in SQLite's ordering, NULL first
TextRank(v) ==
    IF v = NULL THEN 0 ELSE CHOOSE k \in 1..Len(ByteOrder) : ByteOrder[k] = v

\* fetch_extensions: the distinct extensions of a run in ascending order,
\* NULL given as the empty string
fetch_extensions(fs, run_id) ==
    LET exts == {f.extension : f \in {g \in fs : g.run_id = run_id}}
        sorted == [k \in 1..Cardinality(exts) |->
                      CHOOSE e \in exts :
                          Cardinality({d \in exts : TextRank(d) < TextRank(e)}) = k - 1]
    IN [k \in 1..Cardinality(exts) |-> IF sorted[k] = NULL THEN "" ELSE sorted[k]]

\* A row of scan_runs as list_runs returns it, run_id included
RunRow(rs, run_id) ==
    [run_id |-> run_id, root_path |-> rs[run_id].root_path,
     queued_at |-> rs[run_id].queued_at, started_at |-> rs[run_id].started_at,
     completed_at |-> rs[run_id].completed_at, status |-> rs[run_id].status,
     total_files |-> rs[run_id].total_files,
     total_errors |-> rs[run_id].total_errors,
     duration_seconds |-> rs[run_id].duration_seconds,
     error_message |-> rs[run_id].error_message]

\* CASE status WHEN 'running' THEN 0 WHEN 'queued' THEN 1 ELSE 2 END
StatusRank(status) ==
    IF status = "running" THEN 0 ELSE IF status = "queued" THEN 1 ELSE 2

\* The activity time with the columns coalesced from the oldest on
RunActivity_QueuedFirst(row) ==
    COALESCE_time(row.queued_at, COALESCE_time(row.started_at, row.completed_at))

\* COALESCE(completed_at, started_at, queued_at)
RunActivity(row) ==
    COALESCE_time(row.completed_at, COALESCE_time(row.started_at, row.queued_at))

\* The ORDER BY of list_runs: TRUE when row a sorts before row b
RunsBefore(a, b) ==
    \/ StatusRank(a.status) < StatusRank(b.status)
    \/ /\ StatusRank(a.status) = StatusRank(b.status)
       /\ RunActivity(a) > RunActivity(b)

\* list_runs over the rows in scan order
list_runs(scan) ==
    LET n == Len(scan)
        pos(i) == 1 + Cardinality({j \in 1..n :
                        \/ RunsBefore(scan[j], scan[i])
                        \/ ~RunsBefore(scan[i], scan[j]) /\ j < i})
    IN [k \in 1..n |-> scan[CHOOSE i \in 1..n : pos(i) = k]]

-----------------------------------------------------------------------------
(* StoreSpec: the run-lifecycle API of audit_db called directly, in any     *)
(* order and with any arguments, as index_cli and the tests may call it.   *)

\* Root paths handed to prepare_run; "r1/." and "r1" name one directory
StoreRootInputs == {"r1", "r1/.", "r2"}

\* Run ids handed to the store, known or not
StoreRunIds == 1..Cardinality(ValidRoots)

\* The rows the crawler would build for two files of a tree
SampleRows == {BatchRow(Tree("r1")[1]), BatchRow(Tree("r1")[3])}

\* <<total_files, total_errors>> handed to update_run_progress and
\* finalize_run
Counts == {<<0, 0>>, <<MaxCount, MaxCount>>}

\* Every batch of 1..n rows over the set S
Batches(S, n) == UNION {[1..k -> S] : k \in 1..n}

PrepareRun(root_path) ==
    /\ LET prep == prepare_run(runs, files, root_path, now)
       IN /\ runs' = prep.runs
          /\ files' = prep.files
          /\ last' = Call("prepare_run", FALSE, prep.run_id,
                          Cardinality(files) - Cardinality(prep.files))
    /\ UNCHANGED <<now, jobs, cur, thread, w, snap, faults, out>>

MarkRunStarted(run_id) ==
    /\ runs' = mark_run_started(runs, run_id, now)
    /\ UNCHANGED <<files, now, jobs, cur, thread, w, last, snap, faults, out>>

UpdateRunProgress(run_id, total_files, total_errors) ==
    /\ runs' = update_run_progress(runs, run_id, total_files, total_errors)
    /\ UNCHANGED <<files, now, jobs, cur, thread, w, last, snap, faults, out>>

FinalizeRun(run_id, total_files, total_errors, status) ==
    /\ runs' = finalize_run(runs, run_id, total_files, total_errors, 0, status,
                            IF status = "failed" THEN Fault ELSE NULL, now)
    /\ UNCHANGED <<files, now, jobs, cur, thread, w, last, snap, faults, out>>

InsertFileBatch(run_id, rows) ==
    /\ files' = insert_file_batch(files, run_id, rows)
    /\ UNCHANGED <<runs, now, jobs, cur, thread, w, last, snap, faults, out>>

StoreNext ==
    \/ \E r \in StoreRootInputs : PrepareRun(r)
    \/ \E i \in StoreRunIds : MarkRunStarted(i)
    \/ \E i \in StoreRunIds : \E c \in Counts : UpdateRunProgress(i, c[1], c[2])
    \/ \E i \in StoreRunIds : \E c \in Counts :
          \E st \in {"completed", "failed"} : FinalizeRun(i, c[1], c[2], st)
    \/ \E i \in StoreRunIds : \E rows \in Batches(SampleRows, MaxBatch) :
          InsertFileBatch(i, rows)

StoreSpec == Init /\ [][StoreNext]_vars

-----------------------------------------------------------------------------
(* FilesSpec: insert_file_batch called with arbitrary batches on a store    *)
(* that holds the runs of two roots.                                       *)

\* Rows for one path that differ in every column, a row for it whose
\* nullable columns are all NULL, and a row for a second path
RowDomain ==
    { << "r1/a.txt", "a.txt", "/", "txt", 1, 1, "u1" >>,
      << "r1/a.txt", "A.PDF", "sub", "pdf", 2, 2, "u2" >>,
      << "r1/a.txt", "a", "", "", NoTime, NoTime, NULL >>,
      << "r1/x", "x", "/", "", 1, NoTime, NULL >> }

FilesInit ==
    /\ runs = prepare_run(prepare_run(<< >>, {}, "r1", 1).runs, {}, "r2", 1).runs
    /\ files = {}
    /\ now = 1
    /\ jobs = << >>
    /\ cur = 0
    /\ thread = 0
    /\ w = << >>
    /\ last = NoCall
    /\ snap = << >>
    /\ faults = 0
    /\ out = << >>

FilesNext ==
    \E i \in StoreRunIds : \E rows \in Batches(RowDomain, MaxBatch) :
        InsertFileBatch(i, rows)

FilesSpec == FilesInit /\ [][FilesNext]_vars

-----------------------------------------------------------------------------
(* PollSpec: Spec with a client that polls get_status() at any moment.      *)

PollNext ==
    \/ \E r \in RootInputs : StartRejected(r)
    \/ \E r \in RootInputs : StartAccepted(r)
    \/ get_status
    \/ WorkerNext

PollSpec == Init /\ [][PollNext]_vars

-----------------------------------------------------------------------------
(* RescanSpec: Spec with room for one more start(), so that a root can be  *)
(* scanned again while an earlier job of it is still being crawled.        *)

MaxRescanJobs == 3     \* number of start() calls that are accepted

RescanNext ==
    \/ \E r \in RootInputs : StartRejected(r)
    \/ \E r \in RootInputs : StartAcceptedUpTo(r, MaxRescanJobs)
    \/ WorkerNext

RescanSpec == Init /\ [][RescanNext]_vars

-----------------------------------------------------------------------------
(* CrawlSpec: Spec with start() called on directories only, the empty one  *)
(* among them.                                                             *)

MaxCrawlJobs == 2      \* number of start() calls that are accepted

CrawlNext ==
    \/ \E r \in Directories : StartRejected(r)
    \/ \E r \in Directories : StartAcceptedUpTo(r, MaxCrawlJobs)
    \/ WorkerNext

CrawlSpec == Init /\ [][CrawlNext]_vars

-----------------------------------------------------------------------------
(* PageSpec: a client pages through fetch_page with one query, from page 0 *)
(* on, over a store that does not change.  The store, the order in which   *)
(* the query's plan visits the rows, and the query are drawn at the start. *)

MaxSort == 4           \* longest list of sort instructions
MaxPageSize == 2       \* largest page_size

\* File rows of run 1: two share a file name, two a modification time; and
\* a file row of run 2
PageFiles ==
    { FileRow(1, << "r1/a.txt", "a.txt", "/", "txt", 1, 2, "u1" >>),
      FileRow(1, << "r1/Fin/x/b.pdf", "b.pdf", "Fin/x", "pdf", 1, 2, NULL >>),
      FileRow(1, << "r1/fin/a.txt", "a.txt", "fin", "txt", 1, 1, "u1" >>) }
OtherRunFile == FileRow(2, << "r2/c.txt", "c.txt", "/", "txt", 1, 1, "u1" >>)

\* Sort instructions, one of them naming no column of the table
SortDomain ==
    { SortInstruction("modified_at", "desc"), SortInstruction("file_name", "asc"),
      SortInstruction("bogus", "asc") }
SortInputs == UNION {[1..k -> SortDomain] : k \in 0..MaxSort}

\* Extension filters (empty: none given) and subfolder filters ("": none)
ExtensionFilters == {{}, {"pdf"}, {"pdf", "txt"}}
SubfolderFilters == {"", "fin", "_"}

\* Every order in which the rows of S can be visited
ScanOrders(S) ==
    {sc \in [1..Cardinality(S) -> S] : \A f \in S : \E k \in DOMAIN sc : sc[k] = f}

PageInit ==
    /\ runs = prepare_run(prepare_run(<< >>, {}, "r1", 1).runs, {}, "r2", 1).runs
    /\ files \in {S \cup {OtherRunFile} : S \in SUBSET PageFiles}
    /\ now = 1
    /\ jobs = << >>
    /\ cur = 0
    /\ thread = 0
    /\ w = << >>
    /\ last = NoCall
    /\ snap = << >>
    /\ faults = 0
    /\ \E sc \in ScanOrders(files) : \E sort \in SortInputs :
       \E ext \in ExtensionFilters : \E sub \in SubfolderFilters :
       \E size \in 1..MaxPageSize :
          out = [scan |-> sc, run_id |-> 1, page_size |-> size,
                 sort_instructions |-> sort, extensions |-> ext,
                 subfolder_contains |-> sub, pages |-> << >>, total |-> 0]

\* The client has fetched every page of its query
PagesDone ==
    Len(out.pages) > 0 /\ Len(out.pages) * out.page_size >= out.total

\* The client fetches the next page
FetchPage ==
    /\ ~PagesDone
    /\ LET res == fetch_page(out.scan, out.run_id, Len(out.pages), out.page_size,
                             out.sort_instructions, out.extensions,
                             out.subfolder_contains)
       IN out' = [out EXCEPT !.pages = Append(@, res.rows), !.total = res.total]
    /\ UNCHANGED <<runs, files, now, jobs, cur, thread, w, last, snap, faults>>

PageNext == FetchPage

PageSpec == PageInit /\ [][PageNext]_vars

-----------------------------------------------------------------------------
(* RunsSpec: the run-lifecycle API called in any order while the clock     *)
(* advances, and a client that lists the runs once, at any moment.         *)

MaxClock == 3          \* latest reading of the clock

\* Time passes
Tick ==
    /\ now < MaxClock
    /\ now' = now + 1
    /\ UNCHANGED <<runs, files, jobs, cur, thread, w, last, snap, faults, out>>

\* list_runs(), the plan visiting the rows in any order
ListRuns ==
    /\ \E sc \in ScanOrders({RunRow(runs, i) : i \in RunIds(runs)}) :
          out' = list_runs(sc)
    /\ UNCHANGED <<runs, files, now, jobs, cur, thread, w, last, snap, faults>>

RunsNext ==
    \/ out = << >> /\ Tick
    \/ out = << >> /\ \E r \in StoreRootInputs : PrepareRun(r)
    \/ out = << >> /\ \E i \in StoreRunIds : MarkRunStarted(i)
    \/ out = << >> /\ \E i \in StoreRunIds : \E st \in {"completed", "failed"} :
                          FinalizeRun(i, 0, 0, st)
    \/ out = << >> /\ ListRuns

RunsSpec == Init /\ [][RunsNext]_vars

-----------------------------------------------------------------------------
(* ReadSpec: the manager with a client that calls get_status() and         *)
(* has_active_job() at any moment.                                         *)

MaxReadJobs == 1       \* number of start() calls that are accepted

ReadNext ==
    \/ \E r \in RootInputs : StartRejected(r)
    \/ \E r \in RootInputs : StartAcceptedUpTo(r, MaxReadJobs)
    \/ get_status
    \/ HasActiveJob
    \/ WorkerNext

ReadSpec == Init /\ [][ReadNext]_vars

-----------------------------------------------------------------------------
(* FairSpec: the manager with every started worker thread scheduled again  *)
(* and again until it returns.  Calls of start() are the environment's and *)
(* need not happen.                                                        *)

MaxFairJobs == 1       \* number of start() calls that are accepted

FairNext ==
    \/ \E r \in RootInputs : StartRejected(r)
    \/ \E r \in RootInputs : StartAcceptedUpTo(r, MaxFairJobs)
    \/ WorkerNext

FairSpec ==
    /\ Init /\ [][FairNext]_vars
    /\ \A j \in 1..MaxFairJobs : WF_vars(WorkerStep(j))

-----------------------------------------------------------------------------
(* IndexSpec: index_path called directly by a single caller, one call      *)
(* after the other, on a store in which runs are prepared and in which     *)
(* file rows of earlier crawls may be left.  No store call raises.         *)

RECURSIVE CrawlLoop(_, _, _)
\* The os.walk loop with its flushes and the final flush, from the state
\* st = [runs, files, ws] on: the store and index_path's locals at the end
CrawlLoop(st, tree, run_id) ==
    LET ws == WalkSegment(st.ws, tree)
    IN IF ws.batch = << >> THEN [st EXCEPT !.ws = ws]
       ELSE CrawlLoop(
               [runs |-> update_run_progress(st.runs, run_id,
                                             ws.total_files + Len(ws.batch),
                                             ws.error_count),
                files |-> insert_file_batch(st.files, run_id, ws.batch),
                ws |-> [ws EXCEPT !.total_files = @ + Len(ws.batch),
                                  !.batch = << >>]],
               tree, run_id)

\* index_path entered with the locals ws0: the store after the call,
\* whether it raised, and the IndexResult returned
IndexFrom(rs, fs, root_path, run_id, t, ws0) ==
    IF ~exists_dir(resolve(root_path))
    THEN [runs |-> rs, files |-> fs, raised |-> TRUE, result |-> ws0.result]
    ELSE LET end == CrawlLoop([runs |-> mark_run_started(rs, run_id, t),
                               files |-> fs, ws |-> ws0],
                              Tree(resolve(root_path)), run_id)
             duration == Max(t - t, 0)
         IN [runs |-> finalize_run(end.runs, run_id, end.ws.total_files,
                                   end.ws.error_count, duration, "completed",
                                   NULL, t),
             files |-> end.files,
             raised |-> FALSE,
             result |-> [total_files |-> end.ws.total_files,
                         error_count |-> end.ws.error_count,
                         duration_seconds |-> duration]]

\* index_path taking up the counters of the run row instead of zero
index_path_ResumesCounters(rs, fs, root_path, run_id, t) ==
    IndexFrom(rs, fs, root_path, run_id, t,
              IF run_id \in RunIds(rs)
              THEN [NewWorker EXCEPT !.total_files = rs[run_id].total_files,
                                     !.error_count = rs[run_id].total_errors]
              ELSE NewWorker)

\* index_path(root_path, run_id): total_files = 0, error_count = 0 at entry
index_path(rs, fs, root_path, run_id, t) ==
    IndexFrom(rs, fs, root_path, run_id, t, NewWorker)

\* File rows an earlier crawl of a since-changed r1 may have left
StaleRows ==
    { << "r1/sub/b.PDF", "b.PDF", "sub", "PDF", 2, 2, "u2" >>,
      << "r1/old", "old", "/", "", 1, 1, NULL >> }

\* The caller's record of an index_path call; again: the call before it was
\* an index_path of the same root and run id
IndexCall(root_path, run_id, result, again) ==
    [root_path |-> root_path, run_id |-> run_id, result |-> result,
     again |-> again]

\* The latest call was index_path(root_path, run_id) and it returned
JustIndexed(root_path, run_id) ==
    /\ last.op = "index_path"
    /\ ~last.raised
    /\ out # << >>
    /\ out[1].root_path = root_path
    /\ out[1].run_id = run_id

\* A caller runs index_path(root_path, run_id) to its end
IndexPath(root_path, run_id) ==
    /\ LET res == index_path(runs, files, root_path, run_id, now)
       IN /\ runs' = res.runs
          /\ files' = res.files
          /\ last' = Call("index_path", res.raised, run_id, 0)
          /\ out' = << IndexCall(root_path, run_id, res.result,
                                 JustIndexed(root_path, run_id)) >>
    /\ UNCHANGED <<now, jobs, cur, thread, w, snap, faults>>

IndexNext ==
    \/ \E r \in ValidRoots : PrepareRun(r)
    \/ \E i \in StoreRunIds : \E rows \in Batches(StaleRows, MaxBatch) :
          out = << >> /\ InsertFileBatch(i, rows)
    \/ \E r \in RootInputs \cup {EmptyRoot} : \E i \in StoreRunIds : IndexPath(r, i)

IndexSpec == Init /\ [][IndexNext]_vars

-----------------------------------------------------------------------------
(* SingleSpec: the manager asked once, for a crawl of any directory; the   *)
(* single crawl from start() to the end of its worker thread.              *)

SingleNext ==
    \/ \E r \in Directories \cup {LongRoot} : StartRejected(r)
    \/ \E r \in Directories \cup {LongRoot} : cur = 0 /\ StartAcceptedUpTo(r, MaxJobs)
    \/ WorkerNext

SingleSpec == Init /\ [][SingleNext]_vars

-----------------------------------------------------------------------------
(* TxSpec: SingleSpec with insert_file_batch taken row by row inside its   *)
(* transaction, and a client that reads the files of a run at any moment   *)
(* through fetch_page and fetch_extensions, each on a connection of its    *)
(* own.                                                                    *)

\* The rows executed in transactions that are open
OpenRows == {w[j].sent : j \in {k \in Workers : w[k].pc = "insert"}} \ {0}

\* What a read returned; open: rows executed in a transaction open at the time
ReadResult(op, value, total) ==
    [op |-> op, value |-> value, total |-> total, open |-> OpenRows]

RECURSIVE ScanOf(_)
\* One order in which the rows of S can be visited
ScanOf(S) ==
    IF S = {} THEN << >>
    ELSE LET f == CHOOSE g \in S : TRUE IN << f >> \o ScanOf(S \ {f})

\* A client calls fetch_page(run_id, 0, page_size, []) with a page that
\* holds every row.  The crawled files of a run differ in file_name, the
\* default sort column, so the page is the same in whichever order the plan
\* visits the rows.
ReadPage(run_id) ==
    /\ LET res == fetch_page(ScanOf(files), run_id, 0, Cardinality(files) + 1,
                             << >>, {}, "")
       IN out' = << ReadResult("fetch_page",
                               {res.rows[k].path : k \in 1..Len(res.rows)},
                               res.total) >>
    /\ UNCHANGED <<runs, files, now, jobs, cur, thread, w, last, snap, faults>>

\* A client calls fetch_extensions(run_id)
ReadExtensions(run_id) ==
    /\ out' = << ReadResult("fetch_extensions", fetch_extensions(files, run_id), 0) >>
    /\ UNCHANGED <<runs, files, now, jobs, cur, thread, w, last, snap, faults>>

TxNext ==
    \/ \E r \in Directories \cup {LongRoot} : StartRejected(r)
    \/ \E r \in Directories \cup {LongRoot} : cur = 0 /\ StartAcceptedUpTo(r, MaxJobs)
    \/ \E i \in RunIds(runs) : ReadPage(i)
    \/ \E i \in RunIds(runs) : ReadExtensions(i)
    \/ \E j \in Workers : WorkerBegin(j)
    \/ \E j \in Workers : IndexEnter(j)
    \/ \E j \in Workers : MarkRaises(j)
    \/ \E j \in Workers : Walk(j)
    \/ \E j \in Workers : WalkRaises(j)
    \/ \E j \in Workers : InsertRow(j)
    \/ \E j \in Workers : InsertCommit(j)
    \/ \E j \in Workers : FlushProgress(j)
    \/ \E j \in Workers : FlushCallback(j)
    \/ \E j \in Workers : StoreRaises(j)
    \/ \E j \in Workers : Finalize(j)
    \/ \E j \in Workers : FinalizeFailed(j)
    \/ \E j \in Workers : WorkerExcept(j)
    \/ \E j \in Workers : OnCompleteOK(j)
    \/ \E j \in Workers : OnCompleteFailed(j)

TxSpec == Init /\ [][TxNext]_vars

-----------------------------------------------------------------------------
(* LockSpec: the manager with JobManager._lock made explicit.  A worker    *)
(* thread enters a `with self._lock` block, runs its body and leaves it in *)
(* three steps; start(), get_status() and has_active_job() are calls of    *)
(* the control thread, which take the lock when it is free and return      *)
(* having released it.                                                     *)

MaxLockJobs == 1       \* number of start() calls that are accepted

\* Control points at which a worker thread is about to enter, or is inside,
\* a `with self._lock` block: _worker's first lines, _on_progress and
\* _on_complete
LockPcs == {"begin", "callback", "complete", "failcomplete"}

\* No thread holds the lock
LockFree == \A j \in Workers : ~w[j].lock

\* `with self._lock:` entered by the worker of job j
Acquire(j) ==
    /\ w[j].pc \in LockPcs
    /\ ~w[j].lock
    /\ LockFree
    /\ w' = [w EXCEPT ![j].lock = TRUE]
    /\ UNCHANGED <<runs, files, now, jobs, cur, thread, last, snap, faults, out>>

\* The lock kept until the worker's thread ends
Release_AtThreadEnd(j) ==
    /\ w[j].lock
    /\ w[j].pc = "done"
    /\ w' = [w EXCEPT ![j].lock = FALSE]
    /\ UNCHANGED <<runs, files, now, jobs, cur, thread, last, snap, faults, out>>

\* The `with self._lock:` block left, its body done
Release(j) ==
    /\ w[j].lock
    /\ w[j].pc \notin LockPcs
    /\ w' = [w EXCEPT ![j].lock = FALSE]
    /\ UNCHANGED <<runs, files, now, jobs, cur, thread, last, snap, faults, out>>

LockNext ==
    \/ \E r \in RootInputs \cup {LongRoot} : LockFree /\ StartRejected(r)
    \/ \E r \in RootInputs \cup {LongRoot} :
          LockFree /\ StartAcceptedUpTo(r, MaxLockJobs)
    \/ LockFree /\ get_status
    \/ LockFree /\ HasActiveJob
    \/ \E j \in Workers : Acquire(j)
    \/ \E j \in Workers : Release(j)
    \/ \E j \in Workers : w[j].lock /\ WorkerBegin(j)
    \/ \E j \in Workers : ~w[j].lock /\ IndexEnter(j)
    \/ \E j \in Workers : ~w[j].lock /\ MarkRaises(j)
    \/ \E j \in Workers : ~w[j].lock /\ Walk(j)
    \/ \E j \in Workers : ~w[j].lock /\ WalkRaises(j)
    \/ \E j \in Workers : ~w[j].lock /\ FlushInsert(j)
    \/ \E j \in Workers : ~w[j].lock /\ FlushProgress(j)
    \/ \E j \in Workers : w[j].lock /\ FlushCallback(j)
    \/ \E j \in Workers : ~w[j].lock /\ StoreRaises(j)
    \/ \E j \in Workers : ~w[j].lock /\ Finalize(j)
    \/ \E j \in Workers : ~w[j].lock /\ FinalizeFailed(j)
    \/ \E j \in Workers : ~w[j].lock /\ WorkerExcept(j)
    \/ \E j \in Workers : w[j].lock /\ OnCompleteOK(j)
    \/ \E j \in Workers : w[j].lock /\ OnCompleteFailed(j)

LockSpec == Init /\ [][LockNext]_vars

-----------------------------------------------------------------------------
(* Properties of the job manager *)

\* Control points at which a worker thread is inside index_path
CrawlPcs == {"index", "walk", "insert", "progress", "callback", "finalize", "failfin"}

ActiveJobs == {j \in Workers : jobs[j].status \in {"queued", "running"}}
CrawlingWorkers == {j \in Workers : w[j].pc \in CrawlPcs}

\* C1: at most one job is queued or running at any time, and at most one
\* worker thread is executing a crawl.
C1_AtMostOneActive ==
    /\ Cardinality(ActiveJobs) <= 1
    /\ Cardinality(CrawlingWorkers) <= 1

\* C2: a start() issued while has_active_job() is true raises and changes
\* nothing: the job record is not replaced, no run row is created or reset,
\* no file row is deleted and no worker thread is launched.
C2_StartWhileActiveChangesNothing ==
    [][\A r \in RootInputs :
          (has_active_job /\ start(r)) =>
              /\ last'.raised
              /\ UNCHANGED <<runs, files, jobs, cur, thread, w>>]_vars

\* The status changes a job record may make
JobStatusSteps ==
    {<<"queued", "running">>, <<"running", "completed">>, <<"running", "failed">>}

\* C3: a job record is created queued and its status changes only along
\* queued -> running -> completed or queued -> running -> failed; a completed
\* or failed job never changes status again.
C3_JobStatusForward ==
    [][/\ \A j \in 1..Len(jobs) :
             \/ jobs'[j].status = jobs[j].status
             \/ <<jobs[j].status, jobs'[j].status>> \in JobStatusSteps
       /\ \A j \in (Len(jobs) + 1)..Len(jobs') : jobs'[j].status = "queued"]_vars

\* Witness for C3: one job has run to completed and another to failed
C3_Witness ==
    \E j, k \in Workers :
        /\ jobs[j].status = "completed" /\ w[j].pc = "done"
        /\ jobs[k].status = "failed" /\ w[k].pc = "done"

\* The status changes a run row may make: forward along queued, running,
\* {completed, failed} (a run whose mark_run_started raised goes from queued
\* straight to failed), and prepare_run's reset of a finished run
RunStatusSteps ==
    {<<"queued", "running">>, <<"running", "completed">>, <<"running", "failed">>,
     <<"queued", "failed">>, <<"completed", "queued">>, <<"failed", "queued">>}

\* C4: apart from prepare_run resetting a finished or still-queued run to
\* queued, a run row's status only moves forward along queued, running,
\* {completed, failed}: never from completed or failed to running, nor from
\* running back to queued.
C4_RunStatusForward ==
    [][\A i \in RunIds(runs) :
          \/ runs'[i].status = runs[i].status
          \/ <<runs[i].status, runs'[i].status>> \in RunStatusSteps]_vars

\* C5: the processed_files and error_count of successive get_status()
\* snapshots of one job never decrease.
C5_SnapshotsMonotonic ==
    [][(snap # << >> /\ snap' # << >> /\ snap'[1].job_id = snap[1].job_id) =>
          /\ snap'[1].processed_files >= snap[1].processed_files
          /\ snap'[1].error_count >= snap[1].error_count]_vars

\* C6 (for a job whose root is an existing directory): once the current job
\* is completed or failed, the run row of its run_id has the job's status,
\* total_files = processed_files and total_errors = error_count.
C6_JobMatchesRunRow ==
    (/\ cur # 0
     /\ jobs[cur].status \in {"completed", "failed"}
     /\ exists_dir(jobs[cur].root_path)) =>
        /\ runs[jobs[cur].run_id].status = jobs[cur].status
        /\ runs[jobs[cur].run_id].total_files = jobs[cur].processed_files
        /\ runs[jobs[cur].run_id].total_errors = jobs[cur].error_count

\* SELECT COUNT(*) FROM files WHERE run_id = ?
FilesOfRun(fs, run_id) == {f \in fs : f.run_id = run_id}

\* C7: for every run whose status is completed, total_files equals the
\* number of (run_id, path) file rows persisted for that run.
C7_CompletedTotalIsRowCount ==
    \A i \in RunIds(runs) :
        runs[i].status = "completed" =>
            runs[i].total_files = Cardinality(FilesOfRun(files, i))

-----------------------------------------------------------------------------
(* Properties of the store *)

\* The (run_id, path) pairs that have a file row
Keys(fs) == {<<f.run_id, f.path>> : f \in fs}

RowIsReset(row) ==
    /\ row.status = "queued"
    /\ row.total_files = 0
    /\ row.total_errors = 0
    /\ row.started_at = NoTime
    /\ row.completed_at = NoTime
    /\ row.duration_seconds = NoTime
    /\ row.error_message = NULL

\* C8: a prepare_run(R) that follows an earlier prepare_run(R), whatever the
\* store went through in between, returns the id the earlier call returned
\* and leaves exactly one run row for R; that row is queued with zero
\* counters, no started/completed time, duration or error message, and the
\* run has no file rows.
C8_PrepareRunTwice ==
    [][\A r \in StoreRootInputs :
          (PrepareRun(r) /\ RunIdOf(runs, resolve(r)) # {}) =>
              /\ last'.value \in RunIdOf(runs, resolve(r))
              /\ (/\ last.op = "prepare_run"
                  /\ last.value \in RunIds(runs)
                  /\ runs[last.value].root_path = resolve(r))
                    => last'.value = last.value
              /\ Cardinality(RunIdOf(runs', resolve(r))) = 1
              /\ RowIsReset(runs'[last'.value])
              /\ FilesOfRun(files', last'.value) = {}]_vars

\* Witness for C8: the latest prepare_run reset a run that had two file rows,
\* while the other root's run is finished and keeps its file rows
C8_Witness ==
    /\ last.op = "prepare_run"
    /\ last.info = 2
    /\ Len(runs) = 2
    /\ RowIsReset(runs[last.value])
    /\ FilesOfRun(files, last.value) = {}
    /\ \E i \in RunIds(runs) :
          /\ i # last.value
          /\ runs[i].status = "failed"
          /\ FilesOfRun(files, i) # {}

\* C9: prepare_run(R) leaves the run row and the file rows of every other
\* run as they were, and a step of any other store operation removes no
\* file row.
C9_OnlyPrepareRunDeletes ==
    [][/\ \A r \in StoreRootInputs :
             PrepareRun(r) =>
                 /\ \A i \in RunIds(runs) \ {last'.value} : runs'[i] = runs[i]
                 /\ \A i \in StoreRunIds \ {last'.value} :
                       FilesOfRun(files', i) = FilesOfRun(files, i)
       /\ (Keys(files) \ Keys(files') # {}) =>
             /\ \E r \in StoreRootInputs : PrepareRun(r)
             /\ \A k \in Keys(files) \ Keys(files') : k[1] = last'.value]_vars

\* Witness for C9: the latest prepare_run deleted file rows of its run while
\* a completed run with a progress count keeps both of its file rows
C9_Witness ==
    /\ last.op = "prepare_run"
    /\ last.info > 0
    /\ \E i \in RunIds(runs) :
          /\ i # last.value
          /\ runs[i].status = "completed"
          /\ runs[i].total_files = MaxCount
          /\ Cardinality(FilesOfRun(files, i)) = 2

\* The positions of a batch that hold a row for path p
RowsFor(rows, p) == {k \in 1..Len(rows) : rows[k][1] = p}

\* The largest element of a non-empty set of numbers
Largest(S) == CHOOSE k \in S : \A m \in S : m <= k

\* Column col of the file row of (run_id, p), none when there is no such row
Stored(fs, run_id, p, col, none) ==
    LET hit == {f \in fs : f.run_id = run_id /\ f.path = p}
    IN  IF hit = {} THEN none
        ELSE LET f == CHOOSE g \in hit : TRUE
             IN IF col = 5 THEN f.created_at
                ELSE IF col = 6 THEN f.modified_at ELSE f.modified_by

\* The last value of column col that is not none among the batch's rows for
\* path p, or the stored value when there is no such row
LastGiven(fs, run_id, rows, p, col, none) ==
    LET given == {k \in RowsFor(rows, p) : rows[k][col] # none}
    IN  IF given = {} THEN Stored(fs, run_id, p, col, none)
        ELSE rows[Largest(given)][col]

\* C10: after an insert_file_batch there is one file row per (run_id, path);
\* for every path of the batch the row has the file_name, subfolder and
\* extension of the batch's last row for that path, and created_at,
\* modified_at and modified_by are the last non-null value given for the
\* path, or the stored value when none is given; other rows are untouched.
C10_UpsertSemantics ==
    [][\A i \in StoreRunIds : \A rows \in Batches(RowDomain, MaxBatch) :
          InsertFileBatch(i, rows) =>
              /\ \A f, g \in files' :
                    (f.run_id = g.run_id /\ f.path = g.path) => f = g
              /\ \A p \in {rows[k][1] : k \in 1..Len(rows)} :
                    \E f \in files' :
                        LET new == rows[Largest(RowsFor(rows, p))]
                        IN /\ f.run_id = i /\ f.path = p
                           /\ f.file_name = new[2]
                           /\ f.subfolder = new[3]
                           /\ f.extension = new[4]
                           /\ f.created_at = LastGiven(files, i, rows, p, 5, NoTime)
                           /\ f.modified_at = LastGiven(files, i, rows, p, 6, NoTime)
                           /\ f.modified_by = LastGiven(files, i, rows, p, 7, NULL)
              /\ \A f \in files :
                    (f.run_id # i \/ RowsFor(rows, f.path) = {}) => f \in files'
              /\ Keys(files') = Keys(files) \cup
                                  {<<i, rows[k][1]>> : k \in 1..Len(rows)}]_vars

\* Witness for C10: a row whose names were overwritten by an insert with
\* NULL timestamps and owner, which kept the stored ones, next to a row of
\* the same path in the other run that holds other values
C10_Witness ==
    \E f, g \in files :
        /\ f.path = "r1/a.txt" /\ f.file_name = "a" /\ f.extension = ""
        /\ f.created_at = 2 /\ f.modified_at = 2 /\ f.modified_by = "u2"
        /\ g.path = f.path /\ g.run_id # f.run_id /\ g.file_name = "A.PDF"

-----------------------------------------------------------------------------
(* Properties of invalid roots *)

\* C11: start(root) with a root that does not exist or is not a directory
\* raises to its caller before any state changes: no run row is created or
\* reset, no file row is deleted, no job record is installed and no worker
\* thread is launched.
C11_InvalidRootRejectedByStart ==
    [][\A r \in RootInputs :
          (resolve(r) \notin Directories /\ start(r)) =>
              /\ last'.raised
              /\ UNCHANGED <<runs, files, jobs, cur, thread, w>>]_vars

\* C12: index_path on a root that does not exist or is not a directory
\* raises before it touches the store: the step that leaves the root checks
\* raises and changes neither table, and the run row of such a root is never
\* running, keeps zero counters and has no file rows.
C12_InvalidRootRaisesBeforeStore ==
    [][/\ \A j \in Workers :
             (/\ jobs[j].root_path \notin Directories
              /\ w[j].pc = "index" /\ w'[j].pc # "index") =>
                 /\ w'[j].pc = "except"
                 /\ w'[j].exc = "Root path does not exist"
                 /\ UNCHANGED <<runs, files>>
       /\ \A i \in RunIds(runs') :
             runs'[i].root_path \notin Directories =>
                 /\ runs'[i].status # "running"
                 /\ runs'[i].started_at = NoTime
                 /\ runs'[i].total_files = 0 /\ runs'[i].total_errors = 0
                 /\ FilesOfRun(files', i) = {}]_vars

\* Witness for C12: the worker of a job on a missing root has raised out of
\* index_path and the run row is still as prepare_run left it
C12_Witness ==
    \E j \in Workers :
        /\ jobs[j].root_path = MissingRoot
        /\ w[j].pc = "except"
        /\ w[j].exc = "Root path does not exist"
        /\ runs[jobs[j].run_id].status = "queued"

-----------------------------------------------------------------------------
(* Properties of the crawl *)

\* Positions of the files of a tree whose stat() succeeds
StatOk(tree) == {k \in 1..Len(tree) : tree[k].st_ctime # NoTime}

\* C13: a crawl whose walk raised nothing completes with total_files = the
\* number of enumerated files whose stat succeeds and error_count = the
\* number whose stat fails, in the IndexResult, in the run row it finalizes
\* and in the job record; a file whose stat fails gets no row; an empty tree
\* gives completed with 0 files and 0 errors.
C13_CrawlCountsEveryFile ==
    [][\A j \in Workers :
          LET tree == Tree(jobs[j].root_path)
              ok == Cardinality(StatOk(tree))
              bad == Len(tree) - ok
              i == jobs[j].run_id
          IN /\ Finalize(j) =>
                   /\ w'[j].result.total_files = ok
                   /\ w'[j].result.error_count = bad
                   /\ runs'[i].status = "completed"
                   /\ runs'[i].total_files = ok
                   /\ runs'[i].total_errors = bad
                   /\ \A k \in (1..Len(tree)) \ StatOk(tree) :
                         \A f \in files' : f.path # tree[k].path
             /\ OnCompleteOK(j) =>
                   /\ jobs'[j].status = "completed"
                   /\ jobs'[j].processed_files = ok
                   /\ jobs'[j].error_count = bad]_vars

\* Witness for C13: a crawl of the tree with a file whose stat fails and a
\* crawl of the empty directory have both completed
C13_Witness ==
    \E j, k \in Workers :
        /\ jobs[j].root_path = "r1" /\ jobs[j].status = "completed"
        /\ jobs[j].processed_files = 2 /\ jobs[j].error_count = 1
        /\ jobs[k].root_path = EmptyRoot /\ jobs[k].status = "completed"
        /\ jobs[k].processed_files = 0 /\ jobs[k].error_count = 0
        /\ runs[jobs[k].run_id].status = "completed"
        /\ runs[jobs[k].run_id].total_files = 0
        /\ runs[jobs[k].run_id].total_errors = 0

-----------------------------------------------------------------------------
(* Properties of fetch_page *)

RECURSIVE Concat(_)
\* The pages one after another
Concat(pages) == IF pages = << >> THEN << >> ELSE Head(pages) \o Concat(Tail(pages))

\* The order a list of sort instructions asks for: its instructions that
\* name an allowed column, the first three of them, else file_name ascending
SpecifiedOrder(sort_instructions) ==
    LET valid == SelectSeq(sort_instructions, LAMBDA i : i.column_id \in allowed_columns)
        used == SubSeq(valid, 1, Min(3, Len(valid)))
    IN IF used = << >> THEN << [column_id |-> "file_name", direction |-> "ASC"] >>
       ELSE [k \in 1..Len(used) |->
                [column_id |-> used[k].column_id,
                 direction |-> IF used[k].direction = "asc" THEN "ASC" ELSE "DESC"]]

\* No row of seq sorts after its successor under the terms
InOrder(seq, terms) ==
    \A k \in 1..(Len(seq) - 1) : Compare(seq[k], seq[k + 1], terms) <= 0

\* sub occurs in str, character for character
Contains(str, sub) ==
    \E i \in 0..(Len(str) - Len(sub)) : SubSeq(str, i + 1, i + Len(sub)) = sub

\* The file rows the client's query selects, as the store evaluates it
Selected ==
    {f \in files : Where(f, out.run_id, out.extensions, out.subfolder_contains)}

\* C14: with page size P > 0 and the store unchanged, the pages
\* 0..ceil(total/P)-1 of a query, one after another, are exactly total rows,
\* none twice and none of the selected rows missing, in the order the sort
\* instructions specify.
C14_PagesPartitionTheResult ==
    PagesDone =>
        LET all == Concat(out.pages)
        IN /\ Len(all) = out.total
           /\ \A i, j \in 1..Len(all) : all[i] = all[j] => i = j
           /\ {all[k] : k \in 1..Len(all)} = {PageRow(f) : f \in Selected}
           /\ InOrder(all, SpecifiedOrder(out.sort_instructions))

\* C15: a page is ordered by the instructions that name an allowed column,
\* in their priority order, at most three of them; an instruction naming an
\* unknown column is ignored and takes no valid instruction's place; with no
\* valid instruction the order is ascending file_name.
C15_PageInSpecifiedOrder ==
    \A k \in 1..Len(out.pages) :
        InOrder(out.pages[k], SpecifiedOrder(out.sort_instructions))

\* The file rows of the requested run with the extension in the filter set
\* and the filter string inside the subfolder, an empty filter passing all
InFilter ==
    {f \in files :
        /\ f.run_id = out.run_id
        /\ out.extensions # {} => f.extension \in out.extensions
        /\ out.subfolder_contains # "" =>
              Contains(Chars(f.subfolder), Chars(out.subfolder_contains))}

\* C16: fetch_page returns only rows of the requested run whose extension is
\* a member of the filter set and whose subfolder contains the filter string
\* with its case, and total_count is the number of such rows of the run.
C16_OnlyFilteredRows ==
    Len(out.pages) > 0 =>
        /\ \A k \in 1..Len(out.pages) : \A n \in 1..Len(out.pages[k]) :
              out.pages[k][n] \in {PageRow(f) : f \in InFilter}
        /\ out.total = Cardinality(InFilter)

-----------------------------------------------------------------------------
(* Properties of list_runs *)

\* Running runs, then queued runs, then the rest
RunGroup(status) ==
    CASE status = "running" -> 1 [] status = "queued" -> 2 [] OTHER -> 3

\* completed_at if set, else started_at, else queued_at
MostRecentActivity(row) ==
    IF row.completed_at # NoTime THEN row.completed_at
    ELSE IF row.started_at # NoTime THEN row.started_at
    ELSE row.queued_at

\* C17: list_runs returns every run row exactly once, the running runs
\* before the queued runs before all others, and inside each group the runs
\* in descending order of their most recent activity timestamp.
C17_ListRunsOrder ==
    [][ListRuns =>
          /\ Len(out') = Len(runs)
          /\ \A i \in RunIds(runs) :
                Cardinality({k \in 1..Len(out') : out'[k] = RunRow(runs, i)}) = 1
          /\ \A k, m \in 1..Len(out') :
                k < m =>
                   /\ RunGroup(out'[k].status) <= RunGroup(out'[m].status)
                   /\ RunGroup(out'[k].status) = RunGroup(out'[m].status) =>
                         MostRecentActivity(out'[k]) >= MostRecentActivity(out'[m])]_vars

\* Witness for C17: the list puts a running run before a queued run that
\* was touched later, and elsewhere two finished runs latest first
C17_Witness ==
    /\ Len(out) = 2
    /\ \/ /\ out[1].status = "running" /\ out[2].status = "queued"
          /\ MostRecentActivity(out[1]) < MostRecentActivity(out[2])
       \/ /\ out[1].status = "failed" /\ out[2].status = "completed"
          /\ out[1].run_id > out[2].run_id
          /\ out[1].queued_at < out[2].queued_at
          /\ MostRecentActivity(out[1]) > MostRecentActivity(out[2])

-----------------------------------------------------------------------------
(* Properties of the manager's read calls and of termination *)

\* C18: has_active_job() returns true exactly when there is a current job
\* and it is queued or running: false before any start, and false once the
\* current job has completed or failed.
C18_HasActiveJobIffQueuedOrRunning ==
    [][HasActiveJob =>
          /\ jobs = << >> => out' = << FALSE >>
          /\ jobs # << >> =>
                /\ cur = Len(jobs)
                /\ jobs[cur].status \in {"queued", "running"} => out' = << TRUE >>
                /\ jobs[cur].status \in {"completed", "failed"} => out' = << FALSE >>
                /\ jobs[cur].status \in {"queued", "running", "completed", "failed"}]_vars

\* Witness for C18: has_active_job() has returned true for a job that is
\* still queued
C18_Witness ==
    /\ out = << TRUE >>
    /\ cur # 0 /\ jobs[cur].status = "queued"

\* C19: get_status() returns None while no start has been accepted, and
\* otherwise a copy of the current job as it is at one moment; what it
\* returned changes only by another get_status(), never by a worker's
\* progress or completion.
C19_SnapshotIsAtomicCopy ==
    [][/\ get_status =>
             /\ jobs = << >> => snap' = << >>
             /\ jobs # << >> => cur = Len(jobs) /\ snap' = << jobs[cur] >>
       /\ snap' # snap => get_status]_vars

\* Witness for C19: a snapshot taken while the current job was running is
\* still held after the worker has completed that job
C19_Witness ==
    /\ snap # << >> /\ cur # 0
    /\ snap[1].job_id = jobs[cur].job_id
    /\ snap[1].status = "running" /\ snap[1].processed_files = 0
    /\ jobs[cur].status = "completed" /\ jobs[cur].processed_files > 0

-----------------------------------------------------------------------------
(* Properties of index_path called directly *)

\* C21: an index_path that follows an index_path of the same root and run
\* id, with no prepare_run in between, leaves every file row as it was, and
\* returns and persists the same total_files and error_count.
C21_ReindexIsIdempotent ==
    [][\A r \in RootInputs \cup {EmptyRoot} : \A i \in StoreRunIds :
          (JustIndexed(r, i) /\ IndexPath(r, i)) =>
              /\ files' = files
              /\ Cardinality(FilesOfRun(files', i)) = Cardinality(FilesOfRun(files, i))
              /\ out'[1].result.total_files = out[1].result.total_files
              /\ out'[1].result.error_count = out[1].result.error_count
              /\ i \in RunIds(runs) =>
                    /\ runs'[i].total_files = runs[i].total_files
                    /\ runs'[i].total_errors = runs[i].total_errors]_vars

\* Witness for C21: r1 has been indexed twice in a row into a run that also
\* holds a row left by an earlier crawl; two files counted, one error
C21_Witness ==
    /\ JustIndexed("r1", 1)
    /\ out[1].again
    /\ out[1].result.total_files = 2
    /\ out[1].result.error_count = 1
    /\ 1 \in RunIds(runs)
    /\ runs[1].total_files = 2
    /\ Cardinality(FilesOfRun(files, 1)) = 3

-----------------------------------------------------------------------------
(* Properties of failing crawls *)

\* C22: when the crawler has raised in the worker of job j, the worker
\* returns normally and _on_complete leaves the job failed with the
\* processed_files its record had, the error_count its record had plus one
\* and the failure message; a start() issued next is not rejected.
C22_CrawlerFailureEndsJobFailed ==
    [][\A j \in Workers :
          OnCompleteFailed(j) =>
              /\ jobs'[j].status = "failed"
              /\ w'[j].pc = "done"
              /\ jobs'[j].message = "Scan failed"
              /\ jobs'[j].processed_files = jobs[j].processed_files
              /\ jobs'[j].error_count = jobs[j].error_count + 1
              /\ ~(cur' # 0 /\ jobs'[cur'].status = "running")]_vars

\* C23: when the walk or a store write of the crawl has raised, index_path
\* finalizes the run row as failed with total_files = the files counted so
\* far, total_errors = the per-file errors counted so far plus one and
\* error_message = the exception's message, and raises that exception to
\* its caller.
C23_FailureFinalizesRunFailed ==
    [][\A j \in Workers :
          FinalizeFailed(j) =>
              /\ runs'[jobs[j].run_id].status = "failed"
              /\ runs'[jobs[j].run_id].total_files = w[j].total_files
              /\ runs'[jobs[j].run_id].total_errors = w[j].error_count + 1
              /\ runs'[jobs[j].run_id].error_message = w[j].exc
              /\ runs'[jobs[j].run_id].completed_at = now
              /\ w'[j].pc = "except"
              /\ w'[j].exc = w[j].exc
              /\ files' = files]_vars

\* Witness for C23: a crawl that had flushed two files and counted one
\* per-file error raised in a store write; its run row is failed with those
\* counts plus one error, and the exception is with the worker
C23_Witness ==
    \E j \in Workers :
        /\ w[j].pc = "except"
        /\ w[j].exc = Fault
        /\ w[j].total_files = 2
        /\ w[j].error_count = 1
        /\ runs[jobs[j].run_id].status = "failed"
        /\ runs[jobs[j].run_id].total_files = 2
        /\ runs[jobs[j].run_id].total_errors = 2
        /\ runs[jobs[j].run_id].error_message = Fault

-----------------------------------------------------------------------------
(* Properties of a single crawl *)

\* The files of the first n entries of a tree whose stat succeeds
StatOkUpTo(tree, n) == {k \in 1..Min(n, Len(tree)) : timestamps(tree[k])[1] # NoTime}

\* C24: every flushed batch holds batch_size records, but the last, which
\* holds 1..batch_size; a flush inserts the batch, then updates the run's
\* progress, then calls the progress callback; and the processed_files
\* handed to a callback is the number of records in the batches flushed up
\* to and including this one.
C24_FlushBatchesInOrder ==
    [][\A j \in Workers :
          LET tree == Tree(jobs[j].root_path)
              run_id == jobs[j].run_id
              batch == w[j].batch
              persisted == \A k \in 1..Len(batch) : FileRow(run_id, batch[k]) \in files
          IN /\ FlushInsert(j) =>
                   /\ Len(batch) \in 1..BatchSize
                   /\ Len(batch) < BatchSize => w[j].idx > Len(tree)
                   /\ ~persisted
                   /\ runs[run_id].total_files = w[j].total_files
                   /\ jobs[j].processed_files = w[j].total_files
             /\ FlushProgress(j) =>
                   /\ persisted
                   /\ runs[run_id].total_files = w[j].total_files
                   /\ runs'[run_id].total_files = w[j].total_files + Len(batch)
                   /\ jobs[j].processed_files = w[j].total_files
             /\ FlushCallback(j) =>
                   /\ persisted
                   /\ runs[run_id].total_files = w[j].total_files + Len(batch)
                   /\ IndexStats(w[j]).processed_files =
                         Cardinality(FilesOfRun(files, run_id))
                   /\ IndexStats(w[j]).processed_files =
                         Cardinality(StatOkUpTo(tree, w[j].idx - 1))
                   /\ jobs'[j].processed_files = IndexStats(w[j]).processed_files
                   /\ w'[j].total_files = IndexStats(w[j]).processed_files]_vars

\* Witness for C24: the crawl of the long directory is at the callback of
\* its third flush, a last batch of one record after two full batches
C24_Witness ==
    \E j \in Workers :
        /\ jobs[j].root_path = LongRoot
        /\ w[j].pc = "callback"
        /\ w[j].total_files = 2 * BatchSize
        /\ Len(w[j].batch) = 1
        /\ jobs[j].processed_files = 2 * BatchSize
        /\ Cardinality(FilesOfRun(files, jobs[j].run_id)) = 2 * BatchSize + 1

\* The combined sizes of the prefixes of the batches a crawl has flushed,
\* when it has flushed n records in all: whole batches of batch_size, and
\* all n
PrefixSizes(n) == {m \in 0..n : m % BatchSize = 0 \/ m = n}

\* C25: at every point of a single crawl the run row's total_files is the
\* combined size of a prefix of the batches flushed so far, and is at most
\* the number of file rows persisted for the run.
C25_RunRowCountsAPrefix ==
    \A i \in RunIds(runs) :
        /\ runs[i].total_files \in PrefixSizes(Cardinality(FilesOfRun(files, i)))
        /\ runs[i].total_files <= Cardinality(FilesOfRun(files, i))

\* Witness for C25: mid-crawl, the second batch is inserted and the running
\* run's row still counts the first batch only
C25_Witness ==
    \E j \in Workers :
        /\ w[j].pc = "progress"
        /\ runs[jobs[j].run_id].status = "running"
        /\ runs[jobs[j].run_id].total_files = BatchSize
        /\ Cardinality(FilesOfRun(files, jobs[j].run_id)) = 2 * BatchSize

-----------------------------------------------------------------------------
(* Properties of the batch insert *)

\* The entries of a tree whose stat succeeds, and the first m of them
ReadableEntries(tree) == StatOkUpTo(tree, Len(tree))
FirstReadable(tree, m) ==
    {k \in ReadableEntries(tree) :
        Cardinality({x \in ReadableEntries(tree) : x <= k}) <= m}

\* The file rows of run_id once the first m readable files of its tree
\* are inserted
RowsOfFirst(run_id, tree, m) ==
    {FileRow(run_id, BatchRow(tree[k])) : k \in FirstReadable(tree, m)}

\* C26: a reader of a run's files (fetch_page, fetch_extensions) on its own
\* connection sees the rows of whole batches only, each batch of the crawl
\* with all of its rows or with none; and when insert_file_batch raises
\* part-way, no row of the batch is persisted.
C26_BatchInsertIsAtomic ==
    [][/\ \A i \in RunIds(runs) :
            LET tree == Tree(runs[i].root_path)
                sizes == PrefixSizes(Cardinality(ReadableEntries(tree)))
            IN /\ ReadPage(i) =>
                     \E m \in sizes :
                        /\ out'[1].value = {f.path : f \in RowsOfFirst(i, tree, m)}
                        /\ out'[1].total = m
               /\ ReadExtensions(i) =>
                     \E m \in sizes :
                        out'[1].value = fetch_extensions(RowsOfFirst(i, tree, m), i)
       /\ \A j \in Workers :
            (StoreRaises(j) /\ w[j].pc = "insert") =>
                /\ files' = files
                /\ \A k \in 1..Len(w[j].batch) :
                      FileRow(jobs[j].run_id, w[j].batch[k]) \notin files']_vars

\* Witness for C26: a reader listed the extensions while the second batch's
\* transaction had executed one row, and saw those of the first batch; the
\* insert then raised
C26_Witness ==
    /\ out # << >>
    /\ out[1].op = "fetch_extensions"
    /\ out[1].open = {1}
    /\ out[1].value = << "pdf", "txt" >>
    /\ \E j \in Workers :
          /\ w[j].pc = "failfin"
          /\ Len(w[j].batch) = BatchSize
          /\ w[j].total_files = BatchSize
          /\ Cardinality(FilesOfRun(files, jobs[j].run_id)) = BatchSize

-----------------------------------------------------------------------------
(* Properties of the run row's counters *)

\* C27: while a run row is running, no step lowers its total_files or its
\* total_errors, the step that finalizes it included.
C27_RunCountersNeverDecrease ==
    [][\A i \in RunIds(runs) :
          runs[i].status = "running" =>
              /\ runs'[i].total_files >= runs[i].total_files
              /\ runs'[i].total_errors >= runs[i].total_errors]_vars

-----------------------------------------------------------------------------
(* Properties of the manager's lock *)

\* C28: a job record is created or written only by a thread that holds the
\* lock, start() makes its active-job check and get_status() and
\* has_active_job() read only with the lock taken, at most one thread holds
\* it, and a worker that holds it is at a `with self._lock` block or can
\* leave one at once: it never holds the lock over a step of the crawler,
\* so that the calls of the control thread are not kept waiting by a crawl.
C28_JobRecordUnderLock ==
    /\ [](/\ Cardinality({j \in Workers : w[j].lock}) <= 1
          /\ \A j \in Workers :
                w[j].lock => (w[j].pc \in LockPcs \/ ENABLED Release(j)))
    /\ [][/\ jobs' # jobs =>
                \/ LockFree /\ Len(jobs') = Len(jobs) + 1
                \/ \E k \in Workers : w'[k] # w[k] /\ w[k].lock /\ w'[k].lock
          /\ (cur' # cur \/ last' # last \/ snap' # snap \/ out' # out) => LockFree
          /\ \A j \in Workers :
                (w[j].lock /\ w[j].pc \in CrawlPcs \ LockPcs) =>
                    w'[j].pc = w[j].pc]_vars

\* Witness for C28: get_status() returned a running job with the counters
\* of its first flush, and has_active_job() returned, while the crawl is
\* in its second flush and no thread holds the lock
C28_Witness ==
    /\ snap # << >>
    /\ snap[1].status = "running"
    /\ snap[1].processed_files = BatchSize
    /\ out = << TRUE >>
    /\ LockFree
    /\ \E j \in Workers :
          /\ w[j].pc = "progress"
          /\ w[j].total_files = BatchSize

-----------------------------------------------------------------------------
(* Properties of the job record's counters *)

\* The counters and path a job record shows
Progress(job) == << job.processed_files, job.error_count, job.current_path >>

\* C29: the processed_files, error_count and current_path of a job record
\* change only in a step of that job's own worker, to the values of a
\* progress callback of its crawl or of its final result; and a callback
\* that arrives when the current job is not running changes no record.
C29_ProgressFromOwnCrawl ==
    [][/\ \A k \in Workers :
             Progress(jobs'[k]) # Progress(jobs[k]) =>
                 /\ w'[k] # w[k]
                 /\ \/ /\ w[k].pc = "callback"
                       /\ jobs'[k].processed_files = IndexStats(w[k]).processed_files
                       /\ jobs'[k].error_count = IndexStats(w[k]).error_count
                       /\ jobs'[k].current_path = IndexStats(w[k]).current_path
                    \/ /\ w[k].pc \in {"complete", "failcomplete"}
                       /\ jobs'[k].processed_files = w[k].result.total_files
                       /\ jobs'[k].error_count = w[k].result.error_count
       /\ \A j \in Workers :
             (FlushCallback(j) /\ (cur = 0 \/ jobs[cur].status # "running")) =>
                 jobs' = jobs]_vars

-----------------------------------------------------------------------------
(* Properties of queued runs *)

\* The workers whose crawl is writing to run i
CrawlsOf(i) == {j \in CrawlingWorkers : jobs[j].run_id = i}

\* C30: a queued run row has no file rows and zero counters; a step that
\* writes file rows of a run finds the run row running; and start() applies
\* prepare_run to no run that a crawl is writing to.
C30_QueuedRunIsEmpty ==
    /\ [](\A i \in RunIds(runs) :
             runs[i].status = "queued" =>
                 /\ FilesOfRun(files, i) = {}
                 /\ runs[i].total_files = 0
                 /\ runs[i].total_errors = 0)
    /\ [][/\ \A i \in RunIds(runs) :
                FilesOfRun(files', i) \ FilesOfRun(files, i) # {} =>
                    runs[i].status = "running"
          /\ \A i \in RunIds(runs) :
                (Len(jobs') > Len(jobs) /\ jobs'[Len(jobs')].run_id = i) =>
                    CrawlsOf(i) = {}]_vars
====
